---------------------------- MODULE Spec2Model ----------------------------
(***************************************************************************)
(* BetterSprinkler (src/index.tsx): the Simulation class (particle         *)
(* emission, the per-particle physics evaluator, the trajectory solver),   *)
(* the control-panel handlers and the p5 draw loop.                        *)
(*                                                                         *)
(* Numbers.  Every JavaScript number is an integer count of 1/SCALE        *)
(* (fixed point, SCALE = 10^4): 2.5 is 25000, 9.81 is 98100.  Math.sin,    *)
(* Math.cos, Math.exp, Math.log and Math.sqrt are computed by series on    *)
(* that grid, so results agree with the floating-point ones to about       *)
(* 10^-3.  Products and quotients are split so that no intermediate value  *)
(* leaves the 32-bit integer range.                                        *)
(*                                                                         *)
(* Clock.  p.millis() is only ever read as a difference now - startTime    *)
(* (lines 83, 98, 323, 392).  The clock origin is moved to the current     *)
(* frame at the end of every draw tick, so startTime is kept relative to   *)
(* the last frame and the state space stays finite while time advances.    *)
(*                                                                         *)
(* Randomness.  p.random is a generator with a hidden state (rng): an      *)
(* initial state chosen arbitrarily, then RandMod equally spaced values    *)
(* visited in a fixed order, one per call.                                 *)
(*                                                                         *)
(* Canvas.  The canvas keeps the size given in p.setup (line 212).         *)
(* p.windowResized (lines 398-401) changes only that size, which scales    *)
(* the pixel positions p.draw records; it is outside this model.           *)
(***************************************************************************)
EXTENDS Integers, Sequences, FiniteSets

VARIABLES
    particles,       \* sim.particles
    splashes,        \* sim.splashes
    activeScenario,  \* sim.activeScenario
    activeAngle,     \* sim.activeAngle (whole degrees)
    currentV0,       \* currentV0 (fixed point)
    isLaunching,     \* sim.isLaunching
    imageLoaded,     \* sim.imageLoaded
    rng,             \* hidden state of p.random
    telemetry,       \* text of range-val, height-val, time-val, energy-val
    graphs,          \* text of val-range-i, val-height-i, val-vel-i
    tick,            \* ghost: what the last draw tick did (evaluation log)
    fresh,           \* ghost: nothing was emitted since the last launch click
    probe            \* PhysSpec only: one call of solveScenario / calculatePhysics

vars == <<particles, splashes, activeScenario, activeAngle, currentV0,
          isLaunching, imageLoaded, rng, telemetry, graphs, tick, fresh, probe>>

simVars == <<particles, splashes, activeScenario, activeAngle, currentV0,
             isLaunching, imageLoaded, rng, telemetry, graphs, tick, fresh>>

---------------------------------------------------------------------------
(* Fixed-point arithmetic *)

SCALE == 100 * 100

\* TLC evaluates an operator's argument each time the operator's body reads
\* it.  Only binds a computed value once: Only({F(v) : v \in {e}}) is F(e).
Only(S) == CHOOSE r \in S : TRUE

Abs(a) == IF a < 0 THEN -a ELSE a

Sgn(a) == IF a < 0 THEN -1 ELSE 1

\* x * y on the grid, rounded toward zero
MulV(x, y) ==
    Sgn(x) * Sgn(y) *
        ( (Abs(x) \div SCALE) * (Abs(y) \div SCALE) * SCALE
        + (Abs(x) \div SCALE) * (Abs(y) % SCALE)
        + (Abs(x) % SCALE) * (Abs(y) \div SCALE)
        + ((Abs(x) % SCALE) * (Abs(y) % SCALE)) \div SCALE )

Mul(a, b) == Only({MulV(x, y) : x \in {a}, y \in {b}})

\* x / y on the grid, rounded toward zero (y # 0), by long division
DivV(x, y) ==
    Sgn(x) * Sgn(y) *
        ( (Abs(x) \div Abs(y)) * SCALE
        + (((Abs(x) % Abs(y)) * 100) \div Abs(y)) * 100
        + (((((Abs(x) % Abs(y)) * 100) % Abs(y)) * 100) \div Abs(y)) )

Div(a, b) == Only({DivV(x, y) : x \in {a}, y \in {b}})

\* an integer quotient rounded toward zero
IDiv(a, n) == Only({Sgn(x) * (Abs(x) \div n) : x \in {a}})

RECURSIVE ExpSeries(_, _, _, _)
ExpSeries(f, k, term, acc) ==
    IF k > 10 THEN acc
    ELSE Only({ExpSeries(f, k + 1, t, acc + t) : t \in {Mul(term, f) \div k}})

RECURSIVE Scale(_, _, _)
Scale(r, c, n) == IF n = 0 THEN r ELSE Only({Scale(q, c, n - 1) : q \in {Mul(r, c)}})

\* Math.exp: e^n * e^f with n the integer part (floor) and 0 <= f < 1
ExpV(x) ==
    LET n == IF x >= 0 THEN x \div SCALE ELSE -((-x + SCALE - 1) \div SCALE)
    IN  IF n >= 0 THEN Scale(ExpSeries(x - n * SCALE, 1, SCALE, SCALE), 27183, n)
        ELSE Scale(ExpSeries(x - n * SCALE, 1, SCALE, SCALE), 3679, -n)

Exp(a) == Only({ExpV(x) : x \in {a}})

RECURSIVE SinSeries(_, _, _, _)
SinSeries(x2, k, term, acc) ==
    IF k > 6 THEN acc
    ELSE Only({SinSeries(x2, k + 1, t, acc + t) :
                 t \in {-IDiv(Mul(term, x2), (2 * k) * (2 * k + 1))}})

\* Math.sin
Sin(a) == Only({SinSeries(x2[2], 1, x2[1], x2[1]) : x2 \in {<<x, MulV(x, x)>> : x \in {a}}})

RECURSIVE CosSeries(_, _, _, _)
CosSeries(x2, k, term, acc) ==
    IF k > 6 THEN acc
    ELSE Only({CosSeries(x2, k + 1, t, acc + t) :
                 t \in {-IDiv(Mul(term, x2), (2 * k - 1) * (2 * k))}})

\* Math.cos
Cos(a) == Only({CosSeries(x2, 1, SCALE, SCALE) : x2 \in {Mul(a, a)}})

RECURSIVE SqrtIter(_, _, _)
SqrtIter(x, r, n) ==
    IF n = 0 THEN r
    ELSE Only({IF r2 >= r THEN r ELSE SqrtIter(x, r2, n - 1)
              : r2 \in {(r + DivV(x, r)) \div 2}})

\* Math.sqrt (x >= 0)
Sqrt(a) ==
    Only({IF x <= 0 THEN 0 ELSE SqrtIter(x, IF x > SCALE THEN x ELSE SCALE, 24) :
            x \in {a}})

RECURSIVE LnSeries(_, _, _, _)
LnSeries(z2, k, term, acc) ==
    IF k > 14 THEN acc
    ELSE Only({LnSeries(z2, k + 1, t, acc + IDiv(t, 2 * k + 1)) : t \in {Mul(term, z2)}})

\* Math.log (x > 0): 2 atanh((x-1)/(x+1))
Ln(a) ==
    Only({2 * LnSeries(MulV(z, z), 1, z, z) : z \in {DivV(x - SCALE, x + SCALE) : x \in {a}}})

\* Math.pow(x, 2)
Pow2(a) == Only({MulV(x, x) : x \in {a}})

\* Number.toFixed(2): the nearest hundredth, as a count of hundredths
ToFixed2(a) == Only({Sgn(x) * ((Abs(x) + 50) \div 100) : x \in {a}})

---------------------------------------------------------------------------
(* Constants of the program *)

G == 98100                     \* 9.81
BETA == 15000                  \* 1.5
PI == 31416                    \* Math.PI
GROUND_LINE_NORM == 9420       \* 0.942
NOZZLE_TOP_NORM == 1500        \* 0.150
PARTICLE_LIFETIME == 3000
EMISSION_RATE == 8
TRAIL_LENGTH == 15
IMPACT_PLANE == 4500           \* 0.45
XCOMPRESS == 2200              \* 0.22
CANVAS_W == 1200
CANVAS_H == 800

\* a whole number of the program as a fixed-point value
Fx(n) == n * SCALE

configs ==
    << [id |-> 1, x |-> 1700, h0 |-> 4500,  dir |-> 1],
       [id |-> 2, x |-> 5100, h0 |-> 4500,  dir |-> 1],
       [id |-> 3, x |-> 9010, h0 |-> 10000, dir |-> -1] >>

\* this.configs.find(c => c.id === id)
FindConfig(id) == configs[CHOOSE i \in 1..Len(configs) : configs[i].id = id]

\* (GROUND_LINE_NORM - NOZZLE_TOP_NORM) / (1.0 - 0.25)
HScale == Div(GROUND_LINE_NORM - NOZZLE_TOP_NORM, SCALE - 2500)

\* (angleDeg * Math.PI) / 180
Rad(angleDeg) == Div(Mul(Fx(angleDeg), PI), Fx(180))



---------------------------------------------------------------------------
(* Simulation.calculatePhysics *)

\* dx, dy, vx, vy of a particle dt seconds after its emission
Kinematics(particle, dt) ==
    Only({ IF particle.scenario = 1
           THEN [dx |-> MulV(w.vc, dt),
                 dy |-> MulV(w.vs, dt) - Mul(Mul(5000, G), Pow2(dt)),
                 vx |-> w.vc,
                 vy |-> w.vs - Mul(G, dt)]
           ELSE [dx |-> Mul(Div(w.vc, BETA), SCALE - w.e),
                 dy |-> Mul(Mul(Div(SCALE, BETA), w.vs + w.gb), SCALE - w.e)
                        - Div(Mul(G, dt), BETA),
                 vx |-> MulV(w.vc, w.e),
                 vy |-> Mul(w.vs + w.gb, w.e) - w.gb]
         : w \in {[vc |-> Mul(particle.velocity, Cos(particle.angle)),
                   vs |-> Mul(particle.velocity, Sin(particle.angle)),
                   e  |-> IF particle.scenario = 1 THEN SCALE ELSE Exp(-Mul(BETA, dt)),
                   gb |-> Div(G, BETA)]} })

\* a faulty impact test: the plane is the emission height, not 0.45
Impacted_EmissionHeight(particle, physY, vy) == physY <= particle.h0 /\ vy < 0

\* the impact test of line 121
Impacted(particle, physY, vy) == physY <= IMPACT_PLANE /\ vy < 0

NullState ==
    [null |-> TRUE, x |-> 0, y |-> 0, physX |-> 0, physY |-> 0,
     impact |-> FALSE, vImpact |-> 0]

\* The returned state (ret) and the particle as the call leaves it, from
\* the kinematics k at dt.
PhysicsState(particle, k) ==
    IF Impacted(particle, particle.h0 + k.dy, k.vy)
    THEN [ret |-> [null |-> FALSE,
                   x |-> particle.startXNorm
                         + Mul(k.dx, XCOMPRESS) * FindConfig(particle.scenario).dir,
                   y |-> GROUND_LINE_NORM - Mul(IMPACT_PLANE - 2500, HScale),
                   physX |-> Abs(k.dx),
                   physY |-> IMPACT_PLANE,
                   impact |-> TRUE,
                   vImpact |-> Sqrt(MulV(k.vx, k.vx) + MulV(k.vy, k.vy))],
          particle |-> [particle EXCEPT !.isDead = TRUE]]
    ELSE [ret |-> [null |-> FALSE,
                   x |-> particle.startXNorm
                         + Mul(k.dx, XCOMPRESS) * FindConfig(particle.scenario).dir,
                   y |-> GROUND_LINE_NORM - Mul(particle.h0 + k.dy - 2500, HScale),
                   physX |-> Abs(k.dx),
                   physY |-> particle.h0 + k.dy,
                   impact |-> FALSE,
                   vImpact |-> Sqrt(MulV(k.vx, k.vx) + MulV(k.vy, k.vy))],
          particle |-> particle]

CalculatePhysics(particle, now) ==
    IF now - particle.startTime < 0
    THEN [ret |-> NullState, particle |-> particle]
    ELSE Only({ PhysicsState(particle, k) :
                  k \in {Only({Kinematics(particle, dt) :
                                 dt \in {DivV(now - particle.startTime, Fx(1000))}})} })

---------------------------------------------------------------------------
(* Simulation.solveScenario *)

\* The Newton-Raphson iterates are followed while they stay within
\* TWindow seconds of zero and the step is representable; an iterate
\* outside (the code then returns a large negative time, or NaN after a
\* zero derivative) is reported as ok = FALSE and not followed further.
TWindow == 4 * SCALE

NewtonSteps == 15

\* a faulty scenario-1 branch: the flight ends at the apex (vy0 / G)
SolveNoDrag_HalfFlight(v0, vx0, vy0) ==
    Only({ [range |-> MulV(vx0, tFlight),
            height |-> Div(MulV(vy0, vy0), 2 * G),
            time |-> tFlight,
            vFinal |-> v0,
            inRange |-> TRUE] : tFlight \in {DivV(vy0, G)} })

\* the scenario-1 branch, lines 160-169
SolveNoDrag(v0, vx0, vy0) ==
    Only({ [range |-> MulV(vx0, tFlight),
            height |-> Div(MulV(vy0, vy0), 2 * G),
            time |-> tFlight,
            vFinal |-> v0,
            inRange |-> TRUE] : tFlight \in {DivV(2 * vy0, G)} })

\* y(t) of line 178
HeightAt(h0, vy0, t) ==
    h0 + Mul(Mul(Div(SCALE, BETA), vy0 + Div(G, BETA)), SCALE - Exp(-MulV(BETA, t)))
       - Div(MulV(G, t), BETA)

\* vy_t of line 179
VyAt(vy0, t) == Mul(vy0 + Div(G, BETA), Exp(-MulV(BETA, t))) - Div(G, BETA)

\* the seed of line 175
NewtonSeed(scenarioId) == IF scenarioId = 3 THEN 6500 ELSE 3600

\* one pass of the loop body, lines 177-180
NewtonStep(h0, vy0, t) ==
    Only({ IF w[2] = 0 \/ Abs(w[1]) \div Abs(w[2]) > 2 * (TWindow \div SCALE)
           THEN [ok |-> FALSE, t |-> t]
           ELSE [ok |-> TRUE, t |-> t - DivV(w[1], w[2])]
         : w \in {<<HeightAt(h0, vy0, t), VyAt(vy0, t)>>} })

RECURSIVE NewtonLoop(_, _, _, _)
NewtonLoop(i, t, h0, vy0) ==
    IF Abs(t) > TWindow THEN [ok |-> FALSE, t |-> t]
    ELSE IF i >= NewtonSteps THEN [ok |-> TRUE, t |-> t]
    ELSE Only({ IF n.ok THEN NewtonLoop(i + 1, n.t, h0, vy0) ELSE n
              : n \in {NewtonStep(h0, vy0, t)} })

\* the results of lines 184-198 at the root t
DragResult(h0, vx0, vy0, t) ==
    Only({ [range |-> Mul(Div(vx0, BETA), SCALE - w.e),
            height |-> IF w.tApex > 0 THEN HeightAt(h0, vy0, w.tApex) ELSE h0,
            time |-> t,
            vFinal |-> Sqrt(Pow2(MulV(vx0, w.e)) + Pow2(VyAt(vy0, t))),
            inRange |-> TRUE]
         : w \in {[e |-> Exp(-MulV(BETA, t)),
                   tApex |-> -Mul(Div(SCALE, BETA),
                                  Ln(Div(G, G + MulV(BETA, vy0))))]} })

\* the linear-drag branch, lines 172-198
SolveDrag(scenarioId, vx0, vy0) ==
    Only({ IF ~nr.ok
           THEN [range |-> 0, height |-> 0, time |-> 0, vFinal |-> 0, inRange |-> FALSE]
           ELSE DragResult(IF scenarioId = 3 THEN SCALE ELSE 0, vx0, vy0, nr.t)
         : nr \in {NewtonLoop(0, NewtonSeed(scenarioId),
                              IF scenarioId = 3 THEN SCALE ELSE 0, vy0)} })

SolveScenario(scenarioId, angleDeg, v0) ==
    Only({ IF scenarioId = 1 THEN SolveNoDrag(w.v0, w.vx0, w.vy0)
           ELSE SolveDrag(scenarioId, w.vx0, w.vy0)
         : w \in { [v0 |-> v0, vx0 |-> MulV(v0, Cos(a)), vy0 |-> MulV(v0, Sin(a))]
                   : a \in {Rad(angleDeg)} } })

---------------------------------------------------------------------------
(* updateTelemetry, updateGraphs *)

\* the options of scenario-select and angle-select and the positions of the
\* velocity slider that are exercised
ScenarioMenu == 1..3

AngleMenu == {30, 75}

VelocityMenu == {25000, 160000}

\* solveScenario over the settings the panel can reach, computed once
SolveTable ==
    [s \in ScenarioMenu |-> [a \in AngleMenu |-> [v \in VelocityMenu |->
        SolveScenario(s, a, v)]]]

\* sim.solveScenario(scenario, angle, v0) as called by the panel
Solved(scenario, angle, v0) == SolveTable[scenario][angle][v0]


Min(a, b) == IF a < b THEN a ELSE b

Max(a, b) == IF a > b THEN a ELSE b

\* Math.round of a non-negative value, as a whole number
Round(x) == (x + SCALE \div 2) \div SCALE

\* `${Math.min(100, Math.max(4, h))}%` with h = (value / full) * 100
BarHeight(value, full) ==
    Only({ Min(Fx(100), Max(Fx(4), h)) : h \in {Mul(Div(value, Fx(full)), Fx(100))} })

\* The four telemetry fields; shown is FALSE when the solver's iterates
\* left the window (the page then shows the diverged numbers).
UpdateTelemetry(scenario, angle, v0) ==
    Only({ IF ~target.inRange
           THEN [shown |-> FALSE, range |-> 0, height |-> 0, time |-> 0, eff |-> 0]
           ELSE [shown |-> TRUE,
                 range |-> ToFixed2(target.range),
                 height |-> ToFixed2(target.height),
                 time |-> ToFixed2(target.time),
                 eff |-> Round(Mul(Div(target.vFinal, v0), Fx(100)))]
         : target \in {Solved(scenario, angle, v0)} })

UpdateGraphs(scenario, angle, v0) ==
    [i \in 1..3 |->
        Only({ IF ~data.inRange
               THEN [shown |-> FALSE, active |-> (i = scenario),
                     range |-> 0, height |-> 0, vel |-> 0,
                     barR |-> 0, barH |-> 0, barV |-> 0]
               ELSE [shown |-> TRUE, active |-> (i = scenario),
                     range |-> ToFixed2(data.range),
                     height |-> ToFixed2(data.height),
                     vel |-> ToFixed2(data.vFinal),
                     barR |-> BarHeight(data.range, 5),
                     barH |-> BarHeight(data.height, 2),
                     barV |-> BarHeight(data.vFinal, 6)]
             : data \in {Solved(i, angle, v0)} })]

---------------------------------------------------------------------------
(* Particles *)

\* the object literal of lines 82-93; recorded counts the positions pushed
\* to history since the particle was created, first marks the first
\* particle emitted after a launch click (both are ghosts)
NewParticle(cfg, scenario, startTime, angle, velocity, size, first) ==
    [startTime |-> startTime,
     h0 |-> cfg.h0,
     scenario |-> scenario,
     angle |-> angle,
     velocity |-> velocity,
     startXNorm |-> cfg.x,
     startYNorm |-> GROUND_LINE_NORM - Mul(cfg.h0 - 2500, HScale),
     isDead |-> FALSE,
     size |-> size,
     history |-> << >>,
     recorded |-> 0,
     first |-> first]

---------------------------------------------------------------------------
(* The state after p.setup *)

NoTick == [loopStart |-> 0, emitted |-> 0, visits |-> << >>]

NoProbe == [stage |-> "none"]

RandMod == 3

SimInit ==
    /\ particles = << >>
    /\ splashes = << >>
    /\ activeScenario = 3
    /\ activeAngle = 30
    /\ currentV0 = 25000
    /\ isLaunching = FALSE
    /\ imageLoaded = FALSE
    /\ rng \in 0..(RandMod - 1)
    /\ telemetry = UpdateTelemetry(3, 30, 25000)
    /\ graphs = UpdateGraphs(3, 30, 25000)
    /\ tick = NoTick
    /\ fresh = FALSE

---------------------------------------------------------------------------
(* PhysSpec: solveScenario and calculatePhysics as functions of their      *)
(* arguments, over a grid of scenario ids, launch angles, speeds and       *)
(* elapsed times.                                                          *)

AngleGrid == {15, 30, 45, 60, 75}

VelStep == SCALE \div 2

MaxVelSteps == 12

DtStepMs == 50

MaxDtSteps == 30

\* the tolerance in time (ms) and in position (1/SCALE m) of a comparison
\* between the solver and the evaluator
TolMs == 10

TolPos == 1000

\* a particle created with exactly the given angle and speed at time 0
ExactParticle(scenarioId, angleDeg, v0) ==
    NewParticle(FindConfig(scenarioId), scenarioId, 0, Rad(angleDeg), v0, Fx(2), FALSE)

NoResult == [range |-> 0, height |-> 0, time |-> 0, vFinal |-> 0, inRange |-> FALSE]

ProbeInputs ==
    [stage : {"input"}, scenarioId : 1..3, angleDeg : AngleGrid,
     v0 : {k * VelStep : k \in 1..MaxVelSteps},
     result : {NoResult}, now : {0}, off : {0}, state : {NullState},
     isDead : {FALSE}]

PhysInit == SimInit /\ rng = 0 /\ probe \in ProbeInputs

\* target = sim.solveScenario(scenarioId, angleDeg, v0)
ProbeSolve ==
    /\ probe.stage = "input"
    /\ \E r \in {SolveScenario(probe.scenarioId, probe.angleDeg, probe.v0)} :
           /\ r.inRange
           /\ probe' = [probe EXCEPT !.stage = "solved", !.result = r]
    /\ UNCHANGED simVars

\* state = sim.calculatePhysics(particle, now) at now = k * DtStepMs
ProbeEvaluate ==
    /\ probe.stage = "input"
    /\ \E k \in 0..MaxDtSteps :
        \E c \in {CalculatePhysics(
                    ExactParticle(probe.scenarioId, probe.angleDeg, probe.v0),
                    Fx(k * DtStepMs))} :
            probe' = [probe EXCEPT !.stage = "evaluated", !.now = Fx(k * DtStepMs),
                                   !.state = c.ret, !.isDead = c.particle.isDead]
    /\ UNCHANGED simVars

\* state = sim.calculatePhysics(particle, now) at the solver's flight time,
\* TolMs before it and TolMs after it
ProbeAtImpact ==
    /\ probe.stage = "solved"
    /\ \E off \in {-TolMs, 0, TolMs} :
        \E now \in {Mul(probe.result.time, Fx(1000)) + Fx(off)} :
        \E c \in {CalculatePhysics(
                    ExactParticle(probe.scenarioId, probe.angleDeg, probe.v0), now)} :
            probe' = [probe EXCEPT !.stage = "atImpact", !.now = now, !.off = off,
                                   !.state = c.ret, !.isDead = c.particle.isDead]
    /\ UNCHANGED simVars

PhysNext == ProbeSolve \/ ProbeEvaluate \/ ProbeAtImpact

PhysSpec == PhysInit /\ [][PhysNext]_vars

---------------------------------------------------------------------------
(* Properties of solveScenario and calculatePhysics (PhysSpec) *)

\* the particle of the probe and its kinematics at the probed time
ProbeParticle == ExactParticle(probe.scenarioId, probe.angleDeg, probe.v0)

ProbeKinematics == Kinematics(ProbeParticle, DivV(probe.now, Fx(1000)))

Near(a, b, tol) == Abs(a - b) <= tol

\* C1 (as claimed): a particle with exactly the solver's angle and speed is
\* at the solver's impact position at the solver's flight time: TolMs after
\* that time the evaluator reports impact with |dx| within TolPos of the
\* solver's range, and TolMs before it the evaluator does not yet report
\* impact, for every scenario.
C1_EvaluatorMatchesSolver ==
    probe.stage = "atImpact" =>
        /\ probe.off = TolMs =>
              /\ ~probe.state.null
              /\ probe.state.impact
              /\ Near(probe.state.physX, probe.result.range, TolPos)
        /\ probe.off = -TolMs => ~probe.state.impact

C6_DragDissipates ==
    (probe.stage = "solved" /\ probe.scenarioId \in {2, 3}) =>
        probe.result.vFinal < probe.v0

\* C7 (as claimed): the solver's flight time is positive and its range is
\* not negative, for every scenario, angle and speed.
C7_PositiveRoot ==
    probe.stage = "solved" => (probe.result.time > 0 /\ probe.result.range >= 0)

IsC8Input == probe.scenarioId = 1 /\ probe.angleDeg = 45 /\ probe.v0 = Fx(5)

\* C8 (as claimed): solveScenario(1, 45, 5) returns time 0.72, range 1.80,
\* height 0.64 and vFinal 5.0, each within 0.01.
C8_AsClaimed ==
    (probe.stage = "solved" /\ IsC8Input) =>
        /\ Near(probe.result.time, 7200, 100)
        /\ Near(probe.result.range, 18000, 100)
        /\ Near(probe.result.height, 6400, 100)
        /\ probe.result.vFinal = Fx(5)

\* C8 (amended): solveScenario(1, 45, 5) returns time 0.72, range 2.55,
\* height 0.64 and vFinal 5.0, each within 0.01.
C8_Amended ==
    (probe.stage = "solved" /\ IsC8Input) =>
        /\ Near(probe.result.time, 7200, 100)
        /\ Near(probe.result.range, 25500, 100)
        /\ Near(probe.result.height, 6400, 100)
        /\ probe.result.vFinal = Fx(5)

\* C8 witness: solveScenario(1, 45, 5) has returned
C8_Witness == probe.stage = "solved" /\ IsC8Input /\ probe.result.range > 0

---------------------------------------------------------------------------
(* p.random *)

\* p.random(lo, hi) when the generator is in state r: the r-th of RandMod
\* equally spaced values of [lo, hi)
RandomAt(r, lo, hi) == lo + ((hi - lo) * (r % RandMod)) \div RandMod

\* the generator's state after n more calls
Advance(r, n) == (r + n) % RandMod

---------------------------------------------------------------------------
(* Simulation.addParticles *)

\* the particle pushed by pass i (from 0) of the loop of lines 81-94; the
\* four p.random calls of the literal are calls 4i .. 4i+3 of the tick
EmittedParticle(i, r, now, afterLaunch) ==
    NewParticle(FindConfig(activeScenario), activeScenario,
                now - RandomAt(r + 4 * i, 0, Fx(16)),
                Rad(activeAngle) + RandomAt(r + 4 * i + 1, -200, 200),
                currentV0 + RandomAt(r + 4 * i + 2, -500, 500),
                RandomAt(r + 4 * i + 3, 12000, 30000),
                afterLaunch /\ i = 0)

\* sim.particles and the generator after addParticles
AddParticles(ps, r, now, afterLaunch) ==
    [ps |-> ps \o [i \in 1..EMISSION_RATE |-> EmittedParticle(i - 1, r, now, afterLaunch)],
     rng |-> Advance(r, 4 * EMISSION_RATE)]

---------------------------------------------------------------------------
(* p.draw *)

\* milliseconds between two frames
FrameMs == 180

\* p.millis() at the current frame (line 317), the last frame being at 0
Now == Fx(FrameMs)

\* how much later p.millis() is read again inside addParticles (line 73),
\* in units of 1/SCALE ms
EmitLag == 1

\* width and height of the background image
ImgW == 16

ImgH == 9

\* offsetX, drawW, drawH of lines 307-315
Canvas ==
    IF imageLoaded
    THEN Only({ [offsetX |-> IDiv(Fx(CANVAS_W) - drawW, 2),
                 drawW |-> drawW,
                 drawH |-> Fx(CANVAS_H)]
              : drawW \in {Mul(Fx(CANVAS_H), Div(Fx(ImgW), Fx(ImgH)))} })
    ELSE [offsetX |-> 0, drawW |-> 0, drawH |-> 0]

\* a splash is kept while its age is at most maxAge (lines 323-325)
SplashKept(s) == ~(Now - s.startTime > (IF s.isMist THEN Fx(600) ELSE Fx(400)))

\* The splash loop of lines 321-343: splashes past their age are spliced
\* out, the others keep their order.  Of a splash only startTime and isMist
\* are kept; its position, speed, size, alpha and colour are drawn and
\* never read by anything else.
SplashLoop(ss) == SelectSeq(ss, SplashKept)

\* the number of passes of `for (j = 0; j < splashCount; j++)`
SplashCount(r) == (RandomAt(r, Fx(4), Fx(7)) + SCALE - 1) \div SCALE

\* The splashes pushed at an impact (lines 374-388): one p.random call for
\* splashCount, then five per splash, the first deciding isMist.
SpawnSplashes(ss, r) ==
    [ss |-> ss \o [j \in 1..SplashCount(r) |->
                     [startTime |-> Now,
                      isMist |-> RandomAt(r + 1 + 5 * (j - 1), 0, SCALE) > 4000]],
     rng |-> Advance(r, 1 + 5 * SplashCount(r))]

\* a faulty trail: a full history drops the new position, not the oldest
PushHistory_DropNewest(history, pt) ==
    IF Len(history) + 1 > TRAIL_LENGTH
    THEN history
    ELSE Append(history, pt)

\* particle.history.push(pt); if (length > TRAIL_LENGTH) shift()
PushHistory(history, pt) ==
    IF Len(history) + 1 > TRAIL_LENGTH
    THEN Tail(Append(history, pt))
    ELSE Append(history, pt)

\* a faulty removal: splice(i - 1, 1), the element before the current one
Splice_Before(ps, i) ==
    [j \in 1..(Len(ps) - 1) |->
        IF j < (IF i > 1 THEN i - 1 ELSE 1) THEN ps[j] ELSE ps[j + 1]]

\* sim.particles.splice(i, 1), i counted from 1
Splice(ps, i) == [j \in 1..(Len(ps) - 1) |-> IF j < i THEN ps[j] ELSE ps[j + 1]]

\* a faulty removal test: dead particles are kept until they age out
Expired_AgeOnly(particle) == Now - particle.startTime > Fx(PARTICLE_LIFETIME)

\* a faulty removal test: particles are removed on impact only
Expired_DeadOnly(particle) == particle.isDead

\* the removal test of line 392
Expired(particle) ==
    particle.isDead \/ (Now - particle.startTime > Fx(PARTICLE_LIFETIME))

\* particle after lines 349-390: the screen position is pushed on the
\* history (recorded counts the pushes, a ghost), an impact empties it
Drawn(c, cv) ==
    IF c.ret.null THEN c.particle
    ELSE [c.particle EXCEPT
            !.history = IF c.ret.impact THEN << >>
                        ELSE PushHistory(@, [x |-> cv.offsetX + Mul(c.ret.x, cv.drawW),
                                             y |-> Mul(c.ret.y, cv.drawH),
                                             k |-> c.particle.recorded + 1]),
            !.recorded = @ + 1]

\* The body of the particle loop (lines 346-394) at index i, given what
\* calculatePhysics returned (c).  st.ps pairs every particle with its
\* index when the loop started (slot, a ghost); st.visits logs each call of
\* calculatePhysics.
ParticleBody(st, i, c, cv) ==
    Only({ [ps |-> IF w.gone THEN Splice(w.kept, i) ELSE w.kept,
            splashes |-> w.sp.ss,
            rng |-> w.sp.rng,
            visits |-> Append(w.st.visits, [slot |-> w.st.ps[i].slot,
                                            wasDead |-> w.st.ps[i].p.isDead,
                                            died |-> w.died,
                                            removed |-> w.gone])]
         : w \in { [st |-> s,
                    died |-> drawn.isDead,
                    gone |-> Expired(drawn),
                    kept |-> [s.ps EXCEPT ![i].p = drawn],
                    sp |-> IF ~c.ret.null /\ c.ret.impact
                           THEN SpawnSplashes(s.splashes, s.rng)
                           ELSE [ss |-> s.splashes, rng |-> s.rng]]
                  : s \in {st}, drawn \in {Drawn(c, cv)} } })

\* the first index of the loop: sim.particles.length - 1, counted from 1
LoopFirst(ps) == Len(ps)

RECURSIVE ParticlePasses(_, _, _)
\* The passes of the particle loop at the indices hi, hi - 1, ..., lo, in
\* that order, each on the array the pass before it left.  The range is
\* halved (upper half first) so that the evaluation stays shallow.
ParticlePasses(lo, hi, st) ==
    IF hi < lo THEN st
    ELSE IF lo = hi
    THEN Only({ ParticleBody(w.s, w.i, w.c, Canvas)
              : w \in { [s |-> s, i |-> i, c |-> CalculatePhysics(s.ps[i].p, Now)]
                       : s \in {st}, i \in {hi} } })
    ELSE Only({ ParticlePasses(b.lo, b.mid, b.st)
              : b \in { [lo |-> lo, mid |-> mid,
                         st |-> ParticlePasses(mid + 1, hi, st)]
                       : mid \in {(lo + hi) \div 2} } })

\* for (let i = sim.particles.length - 1; i >= 0; i--), i counted from 1
ParticleLoop(first, st) == ParticlePasses(1, first, st)

\* moves the clock origin to the current frame
Rebase(seq) == [j \in 1..Len(seq) |-> [seq[j] EXCEPT !.startTime = @ - Now]]

\* The state a draw tick leaves, from the particles and generator after the
\* emission step (em).
DrawFrom(em) ==
    Only({ [particles |-> Rebase([j \in 1..Len(st.ps) |-> st.ps[j].p]),
            splashes |-> Rebase(st.splashes),
            rng |-> st.rng,
            loopStart |-> Len(em.ps),
            visits |-> st.visits]
         : st \in {ParticleLoop(LoopFirst(em.ps),
                     [ps |-> [j \in 1..Len(em.ps) |-> [p |-> em.ps[j], slot |-> j]],
                      splashes |-> SplashLoop(splashes),
                      rng |-> em.rng,
                      visits |-> << >>])} })

Draw ==
    /\ imageLoaded
    /\ UNCHANGED <<activeScenario, activeAngle, currentV0, isLaunching,
                   imageLoaded, telemetry, graphs, probe>>
    /\ fresh' = (fresh /\ ~isLaunching)
    /\ \E em \in {IF isLaunching
                 THEN AddParticles(particles, rng, Now + EmitLag, fresh)
                 ELSE [ps |-> particles, rng |-> rng]} :
       \E d \in {DrawFrom(em)} :
        /\ particles' = d.particles
        /\ splashes' = d.splashes
        /\ rng' = d.rng
        /\ tick' = [loopStart |-> d.loopStart,
                    emitted |-> d.loopStart - Len(particles),
                    visits |-> d.visits]

---------------------------------------------------------------------------
(* The handlers of p.setup and p.preload.  p5 runs p.setup, and then      *)
(* p.draw once per frame, only after the image requested in p.preload     *)
(* (lines 205-208) has loaded: the listeners of p.setup and p.draw are    *)
(* enabled once imageLoaded is set.                                       *)

\* launch-btn click
LaunchClick ==
    /\ imageLoaded
    /\ isLaunching' = TRUE
    /\ particles' = << >>
    /\ splashes' = << >>
    /\ tick' = NoTick
    /\ fresh' = TRUE
    /\ UNCHANGED <<activeScenario, activeAngle, currentV0, imageLoaded, rng,
                   telemetry, graphs, probe>>

\* scenario-select change
ScenarioChange ==
    /\ imageLoaded
    /\ tick' = NoTick
    /\ fresh' = FALSE
    /\ \E s \in ScenarioMenu :
        /\ activeScenario' = s
        /\ graphs' = UpdateGraphs(s, activeAngle, currentV0)
        /\ telemetry' = UpdateTelemetry(s, activeAngle, currentV0)
    /\ isLaunching' = FALSE
    /\ particles' = << >>
    /\ splashes' = << >>
    /\ UNCHANGED <<activeAngle, currentV0, imageLoaded, rng, probe>>

\* a faulty angle-select handler: the particles in flight are kept
AngleChange_KeepsParticles ==
    /\ imageLoaded
    /\ tick' = NoTick
    /\ fresh' = FALSE
    /\ \E a \in AngleMenu :
        /\ activeAngle' = a
        /\ graphs' = UpdateGraphs(activeScenario, a, currentV0)
        /\ telemetry' = UpdateTelemetry(activeScenario, a, currentV0)
    /\ isLaunching' = FALSE
    /\ UNCHANGED <<activeScenario, currentV0, particles, splashes, imageLoaded, rng, probe>>

\* angle-select change
AngleChange ==
    /\ imageLoaded
    /\ tick' = NoTick
    /\ fresh' = FALSE
    /\ \E a \in AngleMenu :
        /\ activeAngle' = a
        /\ graphs' = UpdateGraphs(activeScenario, a, currentV0)
        /\ telemetry' = UpdateTelemetry(activeScenario, a, currentV0)
    /\ isLaunching' = FALSE
    /\ particles' = << >>
    /\ UNCHANGED <<activeScenario, currentV0, splashes, imageLoaded, rng, probe>>

\* velocity-slider input
VelocityInput ==
    /\ imageLoaded
    /\ tick' = NoTick
    /\ fresh' = FALSE
    /\ \E v \in VelocityMenu :
        /\ currentV0' = v
        /\ graphs' = UpdateGraphs(activeScenario, activeAngle, v)
        /\ telemetry' = UpdateTelemetry(activeScenario, activeAngle, v)
    /\ isLaunching' = FALSE
    /\ particles' = << >>
    /\ UNCHANGED <<activeScenario, activeAngle, splashes, imageLoaded, rng, probe>>

\* the callback of p.loadImage
ImageLoaded ==
    /\ ~imageLoaded
    /\ imageLoaded' = TRUE
    /\ UNCHANGED <<particles, splashes, activeScenario, activeAngle, currentV0,
                   isLaunching, rng, telemetry, graphs, tick, fresh, probe>>

Init == SimInit /\ probe = NoProbe

Next ==
    \/ LaunchClick
    \/ ScenarioChange
    \/ AngleChange
    \/ VelocityInput
    \/ ImageLoaded
    \/ Draw

Spec == Init /\ [][Next]_vars

\* p5 calls p.draw once per frame for as long as the page is open
LiveSpec == Init /\ [][Next]_vars /\ WF_vars(Draw)

---------------------------------------------------------------------------
(* Properties of the draw loop and the panel (Spec, LiveSpec) *)

\* the particles of sim.particles, as a set of indices
Live == 1..Len(particles)

\* C3: every live particle's history has at most TRAIL_LENGTH entries, and
\* once more than TRAIL_LENGTH positions have been recorded for it the
\* history is exactly the TRAIL_LENGTH most recently recorded positions,
\* oldest first (k is the ordinal of the recording).
C3_TrailIsLastFifteen ==
    \A j \in Live :
        LET particle == particles[j] IN
        /\ Len(particle.history) <= TRAIL_LENGTH
        /\ particle.recorded > TRAIL_LENGTH =>
            /\ Len(particle.history) = TRAIL_LENGTH
            /\ \A n \in 1..TRAIL_LENGTH :
                 particle.history[n].k = particle.recorded - TRAIL_LENGTH + n

\* a live particle for which more than TRAIL_LENGTH positions were recorded
C3_Witness ==
    \E j \in Live : particles[j].recorded > TRAIL_LENGTH + 1

\* C4: a particle marked dead by calculatePhysics is removed in the same
\* draw tick (no dead particle is left in sim.particles, every evaluation
\* that marked one dead removed it), and calculatePhysics is never called
\* on a particle that is already dead.
C4_DeadRemovedSameTick ==
    /\ \A j \in Live : ~particles[j].isDead
    /\ \A n \in 1..Len(tick.visits) :
        /\ ~tick.visits[n].wasDead
        /\ tick.visits[n].died => tick.visits[n].removed

\* a draw tick in which calculatePhysics marked a particle dead while
\* others stayed alive
C4_Witness ==
    /\ \E n \in 1..Len(tick.visits) : tick.visits[n].died
    /\ particles # << >>

\* no particle left in sim.particles is older than PARTICLE_LIFETIME (the
\* clock origin is the frame just drawn, so the age is -startTime)
AgeBounded ==
    \A j \in Live : -particles[j].startTime <= Fx(PARTICLE_LIFETIME)

\* the first particle emitted after a launch click is in sim.particles
Tracked == \E j \in Live : particles[j].first

\* C5: after every draw tick no remaining particle has
\* now - startTime > PARTICLE_LIFETIME, and while draw ticks keep occurring
\* every emitted particle is eventually removed from sim.particles.
C5_ParticlesExpire == []AgeBounded /\ (Tracked ~> ~Tracked)

\* a draw tick that removed a particle for its age alone, before any impact
C5_Witness ==
    \E n \in 1..Len(tick.visits) :
        tick.visits[n].removed /\ ~tick.visits[n].died

\* C9: in every draw tick every particle that is in sim.particles when the
\* particle loop starts, the ones emitted in that tick included, is
\* evaluated by calculatePhysics exactly once.
C9_EvaluatedExactlyOnce ==
    /\ Len(tick.visits) = tick.loopStart
    /\ \A m \in 1..tick.loopStart :
         Cardinality({n \in 1..Len(tick.visits) : tick.visits[n].slot = m}) = 1

\* a draw tick that emitted EMISSION_RATE particles and spliced out a
\* particle that was not the last of the array
C9_Witness ==
    /\ tick.emitted = EMISSION_RATE
    /\ tick.loopStart > EMISSION_RATE
    /\ \E n \in 1..Len(tick.visits) :
         tick.visits[n].removed /\ tick.visits[n].slot < tick.loopStart

\* every live particle carries the current settings
UnderCurrentSettings ==
    \A j \in Live :
        /\ particles[j].scenario = activeScenario
        /\ particles[j].h0 = FindConfig(activeScenario).h0
        /\ Abs(particles[j].angle - Rad(activeAngle)) <= 200
        /\ Abs(particles[j].velocity - currentV0) <= 500

\* a step that changes the scenario, the angle or the velocity
SettingsChange ==
    \/ activeScenario' # activeScenario
    \/ activeAngle' # activeAngle
    \/ currentV0' # currentV0

\* C10: every particle in sim.particles was emitted under the current
\* settings (scenario, h0, angle within 0.02 rad, velocity within 0.05),
\* and every change of scenario, angle or velocity empties sim.particles
\* and sets isLaunching to false.
C10_EmittedUnderCurrentSettings ==
    /\ []UnderCurrentSettings
    /\ [][SettingsChange => (particles' = << >> /\ ~isLaunching')]_vars

\* particles in flight after all three settings were changed
C10_Witness ==
    /\ particles # << >>
    /\ activeScenario # 3
    /\ activeAngle # 30
    /\ currentV0 # 25000

=============================================================================
